---- MODULE Spec2Model ----
(***************************************************************************)
(* Model of the lattice-Boltzmann site update kernel of                    *)
(* src/codes/lbm_shared_3.cpp: one thread per launch-grid coordinate       *)
(* (i,j,z); a thread inside the guard i<=nx && j<=ny && z<=nz reads its    *)
(* site's distributions, collides the 7 phase-field fields f0..f6 in place *)
(* and collides and streams the 19 hydrodynamic fields g0..g18.            *)
(*                                                                         *)
(* Values.  A double is modelled by the real number it stands for, as an   *)
(* exact fraction <<n, d>> in lowest terms with d > 0, or by NaN = <<0,0>>,*)
(* which stands for every non-finite double (+Inf, -Inf, NaN).  The only   *)
(* division of the kernel is 1.0/rho (line 37); with finite inputs it is   *)
(* the only source of a non-finite value, and every later operation of the *)
(* kernel on a non-finite operand (+, -, *, also 0 * Inf) is non-finite    *)
(* again, so one absorbing value is exact for the finite/non-finite        *)
(* distinction.  Rounding and overflow of doubles are not modelled.        *)
(***************************************************************************)
EXTENDS Integers, Sequences, FiniteSets, TLC

----------------------------------------------------------------------------
(* Exact arithmetic on fractions. *)

Abs(n) == IF n < 0 THEN -n ELSE n

RECURSIVE Gcd(_, _)
Gcd(a, b) == IF b = 0 THEN a ELSE Gcd(b, a % b)

NaN == <<0, 0>>
IsNaN(a) == a[2] = 0

\* the fraction n/d in lowest terms (d # 0)
Q(n, d) ==
  LET s == IF d < 0 THEN -1 ELSE 1
      h == Gcd(Abs(n), Abs(d))
  IN  <<(s * n) \div h, (s * d) \div h>>

I(n) == <<n, 1>>

RAdd(a, b) ==
  IF IsNaN(a) \/ IsNaN(b) THEN NaN
  ELSE LET h == Gcd(a[2], b[2])
           l == (a[2] \div h) * b[2]
       IN  Q(a[1] * (l \div a[2]) + b[1] * (l \div b[2]), l)

RNeg(a) == IF IsNaN(a) THEN NaN ELSE <<-a[1], a[2]>>

RSub(a, b) == RAdd(a, RNeg(b))

RMul(a, b) ==
  IF IsNaN(a) \/ IsNaN(b) THEN NaN
  ELSE LET h1 == Gcd(Abs(a[1]), b[2])
           h2 == Gcd(Abs(b[1]), a[2])
       IN  Q((a[1] \div h1) * (b[1] \div h2), (a[2] \div h2) * (b[2] \div h1))

\* 1.0 / a: a zero divisor gives an infinity, a non-finite value
RInv(a) == IF IsNaN(a) \/ a[1] = 0 THEN NaN ELSE Q(a[2], a[1])

RECURSIVE RSum(_, _)
\* sum of v[d] over d in the finite set S of integers
RSum(v, S) ==
  IF S = {} THEN I(0)
  ELSE LET d == CHOOSE x \in S : \A y \in S : x <= y
       IN  RAdd(v[d], RSum(v, S \ {d}))

Half == Q(1, 2)

----------------------------------------------------------------------------
(* The lattice tables the kernel hard-codes. *)

NF == 7      \* phase-field fields f0..f6
NG == 19     \* hydrodynamic fields g0..g18
FDirs == 0 .. (NF - 1)
GDirs == 0 .. (NG - 1)
Moving == 1 .. (NG - 1)

\* signs with which g_d[current_pos] enters the first moments
UxPlus == {1, 7, 9, 11, 13}
UxMinus == {2, 8, 10, 12, 14}
UyPlus == {3, 7, 10, 15, 17}
UyMinus == {4, 8, 9, 16, 18}
UzPlus == {5, 11, 14, 15, 18}
UzMinus == {6, 12, 13, 16, 17}

Sgn(d, plus, minus) == IF d \in plus THEN 1 ELSE IF d \in minus THEN -1 ELSE 0
Cx(d) == Sgn(d, UxPlus, UxMinus)
Cy(d) == Sgn(d, UyPlus, UyMinus)
Cz(d) == Sgn(d, UzPlus, UzMinus)

\* variant: the displacement with its y component mirrored
DeltaMirrored(d, sx, sy) == Cx(d) - sx * Cy(d) + sx * sy * Cz(d)

\* the index displacement of the store to g_d, as written in the store's subscript
Delta(d, sx, sy) ==
  CASE d = 0  -> 0
    [] d = 1  -> 1
    [] d = 2  -> -1
    [] d = 3  -> sx
    [] d = 4  -> -sx
    [] d = 5  -> sx * sy
    [] d = 6  -> -(sx * sy)
    [] d = 7  -> 1 + sx
    [] d = 8  -> -1 - sx
    [] d = 9  -> 1 - sx
    [] d = 10 -> -1 + sx
    [] d = 11 -> 1 + sx * sy
    [] d = 12 -> -1 - sx * sy
    [] d = 13 -> 1 - sx * sy
    [] d = 14 -> -1 + sx * sy
    [] d = 15 -> sx + sx * sy
    [] d = 16 -> -sx - sx * sy
    [] d = 17 -> sx - sx * sy
    [] d = 18 -> -sx + sx * sy

----------------------------------------------------------------------------
(* The body of the kernel for one site, as a function of what it loads.    *)
(* P is the bundle of scalar arguments; gl[0] is g0[m], gl[d] is           *)
(* g_d[current_pos]; ph, lap, gpx, gpy, gpz are phi[m], laplacian_phi[m],  *)
(* grad_phi_x[m], grad_phi_y[m], grad_phi_z[m].                            *)

Moment(gl, plus, minus) == RSub(RSum(gl, plus), RSum(gl, minus))

\* the projection of (ax, ay, az) the k-th pair of opposite directions uses
Proj(k, ax, ay, az) ==
  CASE k = 1 -> ax
    [] k = 2 -> ay
    [] k = 3 -> az
    [] k = 4 -> RAdd(ax, ay)
    [] k = 5 -> RSub(ax, ay)
    [] k = 6 -> RAdd(ax, az)
    [] k = 7 -> RSub(ax, az)
    [] k = 8 -> RAdd(ay, az)
    [] k = 9 -> RSub(ay, az)

Macro(P, gl, ph, lap, gpx, gpy, gpz) ==
  LET current_phi_2 == RMul(ph, ph)
      rho    == RSum(gl, GDirs)
      irho   == RInv(rho)
      mu_phi == RSub(RMul(RMul(P.alpha, ph), RSub(current_phi_2, P.phi2)),
                     RMul(P.k, lap))
      fx == RMul(mu_phi, gpx)
      ux == RMul(RAdd(Moment(gl, UxPlus, UxMinus), RMul(Half, fx)), irho)
      fy == RMul(mu_phi, gpy)
      uy == RMul(RAdd(Moment(gl, UyPlus, UyMinus), RMul(Half, fy)), irho)
      fz == RMul(mu_phi, gpz)
      uz == RMul(RAdd(Moment(gl, UzPlus, UzMinus), RMul(Half, fz)), irho)
  IN  [phi |-> ph, rho |-> rho, mu_phi |-> mu_phi,
       fx |-> fx, fy |-> fy, fz |-> fz, ux |-> ux, uy |-> uy, uz |-> uz]

\* what the store to f_k adds to itauphi1 * f_k[..]
FAdd(P, M, k) ==
  LET af == RMul(RMul(RMul(Half, P.gamma), M.mu_phi), P.itauphi)
      cf == RMul(RMul(P.itauphi, P.ieta), M.phi)
      u  == Proj((k + 1) \div 2, M.ux, M.uy, M.uz)
  IN  IF k = 0
        THEN RAdd(RMul(RMul(RMul(I(-3), P.gamma), M.mu_phi), P.itauphi),
                  RMul(P.itauphi, M.phi))
        ELSE IF k % 2 = 1 THEN RAdd(af, RMul(cf, u)) ELSE RSub(af, RMul(cf, u))

\* what the store to g_d adds to itaurho * g_d[..]
GAdd(P, M, d) ==
  LET ag == RAdd(RMul(RMul(I(3), M.phi), M.mu_phi), M.rho)
      v  == RMul(Q(3, 2), RAdd(RAdd(RMul(M.ux, M.ux), RMul(M.uy, M.uy)),
                               RMul(M.uz, M.uz)))
      uf == RAdd(RAdd(RMul(M.ux, M.fx), RMul(M.uy, M.fy)), RMul(M.uz, M.fz))
      k  == (d + 1) \div 2
      eg  == IF k <= 3 THEN P.eg1 ELSE P.eg2
      egc == IF k <= 3 THEN P.egc1 ELSE P.egc2
      up == Proj(k, M.ux, M.uy, M.uz)
      fp == Proj(k, M.fx, M.fy, M.fz)
      tmp1 == RAdd(RAdd(RMul(eg, ag),
                        RMul(RMul(eg, M.rho), RSub(RMul(RMul(Half, up), up), v))),
                   RMul(egc, RSub(RMul(up, fp), uf)))
      tmp2 == RAdd(RMul(RMul(eg, M.rho), up), RMul(egc, fp))
  IN  IF d = 0
        THEN RSub(RMul(P.eg0,
                       RSub(RSub(M.rho, RMul(RMul(I(6), M.phi), M.mu_phi)),
                            RMul(M.rho, v))),
                  RMul(P.egc0, uf))
        ELSE IF d % 2 = 1 THEN RAdd(tmp1, tmp2) ELSE RSub(tmp1, tmp2)

----------------------------------------------------------------------------
(* One launch of the kernel. *)

VARIABLES
  nx, ny, nz, ldx, ldy,   \* domain extents and strides (kernel arguments)
  current, next,          \* the two buffer offsets (kernel arguments)
  par,                    \* the scalar arguments k .. egc2, with grav
  inp,                    \* what the caller put in the arrays before the first launch
  grid,                   \* <<bx, by, bz>>: extents of the launch grid
  f, g,                   \* f[k][idx], g[d][idx]: the arrays f0..f6, g0..g18
  pc,                     \* pc[t]: 0 before the thread starts, s: next store, Done
  loc,                    \* loc[t]: the registers of a thread between its steps
  launch,                 \* number of the launch in progress
  plan,                   \* number of launches the caller performs
  order                   \* how the threads of a launch are scheduled

vars == <<nx, ny, nz, ldx, ldy, current, next, par, inp, grid,
          f, g, pc, loc, launch, plan, order>>

\* stores of the body, in program order: 1..7 are f0..f6, 8..26 are g0..g18
NStores == NF + NG
Done == NStores + 1
FieldF(k) == k
FieldG(d) == NF + d

\* one thread per coordinate <<i, j, z>> of the launch grid
Threads == DOMAIN pc

\* variant: a guard one thread too wide per axis
GuardOffByOne(t) == t[1] <= nx + 1 /\ t[2] <= ny + 1 /\ t[3] <= nz + 1

\* the guard of the body
Guard(t) == t[1] <= nx /\ t[2] <= ny /\ t[3] <= nz

\* variant: the plane stride taken for ldy instead of ldx * ldy
FlatPlanar(i, j, z) == i + ldx * j + ldy * z
Flat(i, j, z) == i + ldx * (j + ldy * z)
M(t) == Flat(t[1], t[2], t[3])

Sites == {t \in Threads : Guard(t)}

\* the slot a store reads and the slot it writes
SrcF(t, k) == IF k = 0 THEN M(t) ELSE M(t) + current
\* variant: f1..f6 stored to the next generation
DstFNext(t, k) == IF k = 0 THEN M(t) ELSE M(t) + next
DstF(t, k) == IF k = 0 THEN M(t) ELSE M(t) + current
\* variant: the moving populations loaded from the generation being written
SrcGNext(t, d) == IF d = 0 THEN M(t) ELSE M(t) + next
SrcG(t, d) == IF d = 0 THEN M(t) ELSE M(t) + current
\* variants: g1..g18 stored without displacement / into the current generation
DstGNoDelta(t, d) == IF d = 0 THEN M(t) ELSE M(t) + next
DstGNoNext(t, d) ==
  IF d = 0 THEN M(t) ELSE M(t) + current + Delta(d, ldx, ldy)
DstG(t, d) == IF d = 0 THEN M(t) ELSE M(t) + next + Delta(d, ldx, ldy)

\* the read-only input arrays (the same value at every site)
Phi(m)   == inp.phi
Lap(m)   == inp.lap
GradX(m) == inp.gpx
GradY(m) == inp.gpy
GradZ(m) == inp.gpz

NoLoc == [gl |-> [d \in GDirs |-> I(0)], rho |-> I(0),
          fadd |-> [k \in FDirs |-> I(0)], gadd |-> [d \in GDirs |-> I(0)],
          post |-> [d \in GDirs |-> I(0)]]

\* variant: grav entering the body as a force along z
LoadedPGrav(P, t, gg) ==
  LET gl == [d \in GDirs |-> gg[d][SrcG(t, d)]]
      mm == Macro(P, gl, Phi(M(t)), Lap(M(t)), GradX(M(t)), GradY(M(t)),
                  RAdd(GradZ(M(t)), P.grav))
  IN  [gl |-> gl, rho |-> mm.rho,
       fadd |-> [k \in FDirs |-> FAdd(P, mm, k)],
       gadd |-> [d \in GDirs |-> GAdd(P, mm, d)],
       post |-> [d \in GDirs |-> I(0)]]

\* the loads of the body and everything the body computes from them alone
LoadedP(P, t, gg) ==
  LET gl == [d \in GDirs |-> gg[d][SrcG(t, d)]]
      mm == Macro(P, gl, Phi(M(t)), Lap(M(t)), GradX(M(t)), GradY(M(t)), GradZ(M(t)))
  IN  [gl |-> gl, rho |-> mm.rho,
       fadd |-> [k \in FDirs |-> FAdd(P, mm, k)],
       gadd |-> [d \in GDirs |-> GAdd(P, mm, d)],
       post |-> [d \in GDirs |-> I(0)]]

Loaded(t, gg) == LoadedP(par, t, gg)

\* the value a store writes, given the value old of the slot it reads
ValF(P, old, L, k) == RAdd(RMul(P.itauphi1, old), L.fadd[k])
\* variant: the old value kept in full instead of relaxed by itaurho
ValGNoRelax(P, old, L, d) == RAdd(old, L.gadd[d])
ValG(P, old, L, d) == RAdd(RMul(P.itaurho, old), L.gadd[d])

\* store number s of the body is behind thread t
Past(t, s) == Guard(t) /\ s < pc[t]

\* the slots <<field, idx>> thread t has stored to so far in this launch
\* (the statements of the body it is past; none outside the guard)
StoresOf(t) ==
  {<<FieldF(k), DstF(t, k)>> : k \in {k \in FDirs : Past(t, k + 1)}}
    \cup {<<FieldG(d), DstG(t, d)>> : d \in {d \in GDirs : Past(t, NF + 1 + d)}}

\* the slots <<field, idx>> thread t has loaded from so far in this launch
LoadsOf(t) ==
  {<<FieldG(d), SrcG(t, d)>> : d \in {d \in GDirs : Past(t, 0)}}
    \cup {<<FieldF(k), SrcF(t, k)>> : k \in {k \in FDirs : Past(t, k + 1)}}

\* a thread outside the guard falls through to the end of the kernel
Exit(t) ==
  /\ pc[t] = 0
  /\ ~Guard(t)
  /\ pc' = [pc EXCEPT ![t] = Done]
  /\ UNCHANGED <<nx, ny, nz, ldx, ldy, current, next, par, inp, grid,
                 f, g, loc, launch, plan, order>>

\* a thread inside the guard loads its site (lines 29-57)
Load(t) ==
  /\ pc[t] = 0
  /\ Guard(t)
  /\ loc' = [loc EXCEPT ![t] = Loaded(t, g)]
  /\ pc' = [pc EXCEPT ![t] = 1]
  /\ UNCHANGED <<nx, ny, nz, ldx, ldy, current, next, par, inp, grid,
                 f, g, launch, plan, order>>

\* f_k[..] = itauphi1 * f_k[..] + ...  (lines 62-69)
StoreF(t) ==
  /\ pc[t] \in 1 .. NF
  /\ LET k == pc[t] - 1
     IN  f' = [f EXCEPT ![k][DstF(t, k)] = ValF(par, f[k][SrcF(t, k)], loc[t], k)]
  /\ pc' = [pc EXCEPT ![t] = pc[t] + 1]
  /\ UNCHANGED <<nx, ny, nz, ldx, ldy, current, next, par, inp, grid,
                 g, loc, launch, plan, order>>

\* g_d[..] = itaurho * g_d[..] + ...  (lines 75-142).  The operand g_d[..] was
\* already loaded for rho: the store uses the register or loads the slot again.
StoreG(t) ==
  /\ pc[t] \in (NF + 1) .. NStores
  /\ LET d == pc[t] - (NF + 1)
     IN  \E old \in {loc[t].gl[d], g[d][SrcG(t, d)]} :
           /\ g' = [g EXCEPT ![d][DstG(t, d)] = ValG(par, old, loc[t], d)]
           /\ loc' = [loc EXCEPT ![t].post[d] = ValG(par, old, loc[t], d)]
  /\ pc' = [pc EXCEPT ![t] = pc[t] + 1]
  /\ UNCHANGED <<nx, ny, nz, ldx, ldy, current, next, par, inp, grid,
                 f, launch, plan, order>>

\* The whole body of one thread with no other thread in between.  Every store
\* reads its own array before it writes it and no two stores share an array, so
\* the 26 stores in program order amount to one update per array.
BodyF(P, t, ff, L) ==
  [k \in FDirs |-> [ff[k] EXCEPT ![DstF(t, k)] = ValF(P, ff[k][SrcF(t, k)], L, k)]]
BodyG(P, t, gg, L) ==
  [d \in GDirs |-> [gg[d] EXCEPT ![DstG(t, d)] = ValG(P, L.gl[d], L, d)]]

Rank(t) == t[1] + grid[1] * (t[2] + grid[2] * t[3])

\* does thread t come before thread u in the order ord
Before(ord, t, u) == IF ord = "desc" THEN Rank(u) <= Rank(t) ELSE Rank(t) <= Rank(u)

\* t is the thread the scheduler takes next
Turn(t) == pc[t] = 0 /\ \A u \in Threads : pc[u] = 0 => Before(order, t, u)

Run(t) ==
  /\ pc[t] = 0
  /\ Guard(t)
  /\ Turn(t)
  /\ f' = BodyF(par, t, f, Loaded(t, g))
  /\ g' = BodyG(par, t, g, Loaded(t, g))
  /\ pc' = [pc EXCEPT ![t] = Done]
  /\ UNCHANGED <<nx, ny, nz, ldx, ldy, current, next, par, inp, grid,
                 loc, launch, plan, order>>

Skip(t) == Turn(t) /\ Exit(t)

AllDone == \A t \in Threads : pc[t] = Done

\* the caller's time loop: the next launch swaps the roles of the two offsets
Relaunch ==
  /\ AllDone
  /\ launch < plan
  /\ current' = next
  /\ next' = current
  /\ launch' = launch + 1
  /\ pc' = [t \in Threads |-> 0]
  /\ UNCHANGED <<nx, ny, nz, ldx, ldy, par, inp, grid, f, g, loc, plan, order>>

----------------------------------------------------------------------------
(* What the caller supplies. *)

\* collision switched off: every store writes back the value it read
ParIdentity ==
  [k |-> I(1), alpha |-> I(1), phi2 |-> I(1), gamma |-> I(1),
   itauphi |-> I(0), itauphi1 |-> I(1), ieta |-> I(1), itaurho |-> I(1), grav |-> I(0),
   eg1 |-> I(0), eg2 |-> I(0), eg0 |-> I(0), egc0 |-> I(0), egc1 |-> I(0), egc2 |-> I(0)]

\* relaxation times 1, the D3Q19 lattice weights 1/3, 1/18, 1/36
ParBGK ==
  [k |-> I(1), alpha |-> I(1), phi2 |-> I(1), gamma |-> I(1),
   itauphi |-> I(1), itauphi1 |-> I(0), ieta |-> I(1), itaurho |-> I(0), grav |-> I(1),
   eg1 |-> Q(1, 18), eg2 |-> Q(1, 36), eg0 |-> Q(1, 3),
   egc0 |-> I(-1), egc1 |-> Q(1, 6), egc2 |-> Q(1, 12)]

\* no equilibrium and no source terms: every store only rescales what it read
ParScale ==
  [k |-> I(3), alpha |-> I(2), phi2 |-> I(1), gamma |-> I(2),
   itauphi |-> I(0), itauphi1 |-> I(2), ieta |-> I(2), itaurho |-> I(2), grav |-> I(5),
   eg1 |-> I(0), eg2 |-> I(0), eg0 |-> I(0), egc0 |-> I(0), egc1 |-> I(0), egc2 |-> I(0)]

\* unrelated values
ParAny ==
  [k |-> I(3), alpha |-> I(2), phi2 |-> I(1), gamma |-> I(2),
   itauphi |-> Q(1, 2), itauphi1 |-> Q(1, 3), ieta |-> I(2), itaurho |-> Q(1, 2),
   grav |-> I(7),
   eg1 |-> I(1), eg2 |-> I(2), eg0 |-> I(3), egc0 |-> I(1), egc1 |-> I(2), egc2 |-> I(1)]

\* initial contents of g_d[idx] and f_k[idx]
InG(sc, d, idx) ==
  CASE sc.kind = "any"     -> I(1 + ((d + idx) % 3))
    [] sc.kind = "impulse" -> I(sc.bg + (IF d = sc.dir /\ idx = sc.at THEN 1 ELSE 0))
    [] sc.kind = "rest"    -> I(1 + (((d + 1) \div 2) % 2))
    [] sc.kind = "wave"    -> I(1 + ((((d + 1) \div 2) + idx) % 2))

InF(sc, k, idx) ==
  CASE sc.kind = "any"     -> I(1 + ((2 * k + idx) % 3))
    [] sc.kind = "impulse" -> I(sc.bg)
    [] sc.kind \in {"rest", "wave"} -> IF k = 0 THEN RSub(sc.phi, I(6)) ELSE I(1)

Scene(kind, bg, at, dir, ph, lap, gpx, gpy, gpz) ==
  [kind |-> kind, bg |-> bg, at |-> at, dir |-> dir,
   phi |-> ph, lap |-> lap, gpx |-> gpx, gpy |-> gpy, gpz |-> gpz]

\* unrelated contents, a phase field with a gradient
SceneAny == Scene("any", 0, 0, 0, I(2), I(1), I(1), I(0), I(-1))
\* every pair of opposite populations equal (no momentum), phi uniform
SceneRest(kind) == Scene(kind, 0, 0, 0, I(2), I(0), I(0), I(0), I(0))
\* bg everywhere and bg + 1 in slot at of g_dir, phi uniform
SceneImpulse(bg, at, dir) == Scene("impulse", bg, at, dir, I(2), I(0), I(0), I(0), I(0))

\* size of one generation of a field: the padded site count
PaddedOf(sx, sy, ez) == sx * sy * (ez + 1)
\* the largest streaming displacement
MaxDispOf(sx, sy) ==
  LET S == {Abs(Delta(d, sx, sy)) : d \in GDirs}
  IN  CHOOSE x \in S : \A y \in S : y <= x

Padded == PaddedOf(ldx, ldy, nz)
MaxDisp == MaxDispOf(ldx, ldy)

Min2(a, b) == IF a < b THEN a ELSE b
Max2(a, b) == IF a < b THEN b ELSE a

\* the slots the caller allocated for each array: everything a launch over the
\* launch grid can touch, with the halo the streaming stores need
IdxOf(sx, sy, cur, nxt, ext) ==
  LET top == (ext[1] - 1) + sx * ((ext[2] - 1) + sy * (ext[3] - 1))
      pad == MaxDispOf(sx, sy) + 1
  IN  (Min2(0, Min2(cur, nxt)) - pad) .. (Max2(cur, nxt) + top + pad)

Idx == IdxOf(ldx, ldy, current, next, grid)

\* the arrays as the caller filled them
F0 == [k \in FDirs |-> [idx \in Idx |-> InF(inp, k, idx)]]
G0 == [d \in GDirs |-> [idx \in Idx |-> InG(inp, d, idx)]]

\* the state when the first launch begins
Start(ex, ey, ez, sx, sy, cur, nxt, P, sc, ext, ord, np) ==
  LET T == (0 .. (ext[1] - 1)) \X (0 .. (ext[2] - 1)) \X (0 .. (ext[3] - 1)) IN
  /\ nx = ex /\ ny = ey /\ nz = ez /\ ldx = sx /\ ldy = sy
  /\ current = cur /\ next = nxt
  /\ par = P /\ inp = sc /\ grid = ext /\ order = ord /\ plan = np
  /\ f = [k \in FDirs |-> [idx \in IdxOf(sx, sy, cur, nxt, ext) |-> InF(sc, k, idx)]]
  /\ g = [d \in GDirs |-> [idx \in IdxOf(sx, sy, cur, nxt, ext) |-> InG(sc, d, idx)]]
  /\ pc = [t \in T |-> 0]
  \* a thread that runs its body in one step keeps nothing between steps
  /\ loc = [t \in (IF ord = "free" THEN T ELSE {}) |-> NoLoc]
  /\ launch = 1

\* distance of the two generations: adjacent, or with a halo between them
SepOf(sx, sy, ez, far) == PaddedOf(sx, sy, ez) + (IF far THEN MaxDispOf(sx, sy) ELSE 0)

\* the two offsets: one generation at 0, the other sep slots above it
Cur(up, sep) == IF up THEN 0 ELSE sep
Nxt(up, sep) == IF up THEN sep ELSE 0

----------------------------------------------------------------------------
(* Spec: two neighbouring sites and one thread outside the guard, the      *)
(* threads interleaved store by store.                                     *)

MaxPad == 1     \* strides exceed the extents by 1 + pad, pad in 0 .. MaxPad

\* two sites side by side along x, y or z
PairShapes == {<<1, 0, 0>>, <<0, 1, 0>>, <<0, 0, 1>>}

\* a launch over the sites 0 .. sh[a] per axis a, strides padded by pad
FreeStart(sh, ext, pad, far, up, P, sc) ==
  LET sx == sh[1] + 1 + pad
      sy == sh[2] + 1 + pad
      sep == SepOf(sx, sy, sh[3], far)
  IN  Start(sh[1], sh[2], sh[3], sx, sy, Cur(up, sep), Nxt(up, sep),
            P, sc, ext, "free", 1)

\* two sites; the launch grid overhangs the domain by one thread along the pair
InitPair ==
  \E sh \in PairShapes, pad \in 0 .. MaxPad, far \in BOOLEAN, up \in BOOLEAN :
    FreeStart(sh, <<2 * sh[1] + 1, 2 * sh[2] + 1, 2 * sh[3] + 1>>, pad, far, up,
              ParScale, SceneAny)

\* one site and one thread outside the guard, full collision
InitOne ==
  \E pad \in 0 .. MaxPad, far \in BOOLEAN, up \in BOOLEAN,
     P \in {ParIdentity, ParBGK, ParAny} :
    \E sc \in {SceneAny, SceneRest("rest"),
               SceneImpulse(0, Cur(up, SepOf(1 + pad, 1 + pad, 0, far)), 1)} :
      FreeStart(<<0, 0, 0>>, <<2, 1, 1>>, pad, far, up, P, sc)

Init == InitPair \/ InitOne

Next == \E t \in Threads : Exit(t) \/ Load(t) \/ StoreF(t) \/ StoreG(t)

Spec == Init /\ [][Next]_vars

----------------------------------------------------------------------------
(* SpecGrid: a cube of sites, the threads of a launch run one after the    *)
(* other in ascending or descending order, launches repeated.              *)

MaxN == 2        \* the cube has sites 0 .. n per axis, n in 1 .. MaxN
MaxLaunch == 2   \* launches of the time loop

Orders == {"asc", "desc"}

\* a launch of the cube n with strides n + px, n + py
GridStart(n, px, py, far, up, P, sc, ord, np) ==
  LET sx == n + px
      sy == n + py
      sep == SepOf(sx, sy, n, far)
  IN  Start(n, n, n, sx, sy, Cur(up, sep), Nxt(up, sep), P, sc,
            <<n + 2, n + 1, n + 1>>, ord, np)

\* the slot of the site (1,1,1) in the generation at offset 0
Centre(sx, sy) == 1 + sx * (1 + sy)

\* every stride and offset choice, on arrays whose values stay integers
InitAccess ==
  \E n \in 1 .. MaxN, px \in 0 .. 1, py \in 0 .. 1, far \in BOOLEAN, up \in BOOLEAN,
     ord \in Orders :
    GridStart(n, px, py, far, up, ParScale, SceneAny, ord, MaxLaunch)

\* padded strides and separated generations, full collision
InitCollide ==
  \E n \in 1 .. MaxN, up \in BOOLEAN, ord \in Orders, P \in {ParBGK, ParAny},
     sc \in {SceneAny, SceneRest("rest"), SceneRest("wave")} :
    GridStart(n, 1, 1, TRUE, up, P, sc, ord, 1)

\* one population of the centre site (1,1,1) raised by one, collision off
InitImpulse ==
  \E n \in 2 .. MaxN, dir \in Moving, bg \in 0 .. 1, ord \in Orders :
    GridStart(n, 1, 1, TRUE, TRUE, ParIdentity,
              SceneImpulse(bg, Centre(n + 1, n + 1), dir), ord, 1)

InitGrid == InitAccess \/ InitCollide \/ InitImpulse

NextGrid == (\E t \in Threads : Run(t) \/ Skip(t)) \/ Relaunch

SpecGrid == InitGrid /\ [][NextGrid]_vars

----------------------------------------------------------------------------
(* What the claims speak of. *)

\* the launch run thread after thread in the order ord, from the caller's arrays
RECURSIVE ReplayFrom(_, _, _, _, _)
ReplayStep(P, ord, todo, ff, gg, t, L) ==
  ReplayFrom(P, ord, todo \ {t}, BodyF(P, t, ff, L), BodyG(P, t, gg, L))
ReplayNext(P, ord, todo, ff, gg, t) ==
  ReplayStep(P, ord, todo, ff, gg, t, LoadedP(P, t, gg))
ReplayFrom(P, ord, todo, ff, gg) ==
  IF todo = {} THEN <<ff, gg>>
  ELSE ReplayNext(P, ord, todo, ff, gg,
                  CHOOSE t \in todo : \A u \in todo : Before(ord, t, u))

Replay(P, ord) == ReplayFrom(P, ord, Sites, F0, G0)

\* the coordinates the guard is meant to let through, and the others
InBox(i, j, z) == 0 <= i /\ i <= nx /\ 0 <= j /\ j <= ny /\ 0 <= z /\ z <= nz
Outside(t) == t[1] > nx \/ t[2] > ny \/ t[3] > nz
Box == {t \in Threads : ~Outside(t)}

\* the slot of site <<i, j, z>> within a generation
SlotOf(i, j, z) == i + ldx * j + ldx * ldy * z
BoxSlots == {SlotOf(t[1], t[2], t[3]) : t \in Box}
HaloSlots == {SlotOf(i, j, z) : i \in -1 .. (nx + 1), j \in -1 .. (ny + 1),
                                z \in -1 .. (nz + 1)}

\* the offset a field's subscripts carry: none for f0 and g0, current for
\* f1..f6, next for g1..g18
OffsetOf(fld) ==
  IF fld = FieldF(0) \/ fld = FieldG(0) THEN 0
  ELSE IF fld < NF THEN current ELSE next

InPlace(fld) == fld <= FieldG(0)

\* the two generations of one field share no site slot
GenerationsDisjoint ==
  \A a \in BoxSlots, b \in BoxSlots : a + next # b + current

\* the generations lie a halo further apart than the padded site count
HaloApart ==
  Abs(next - current) >= ldx * ldy * (nz + 1) + ldx * ldy + ldx

Changed == f # F0 \/ g # G0

----------------------------------------------------------------------------
(* C1: a thread whose coordinates fail the guard changes no slot of any    *)
(* array: every step it takes leaves f0..f6 and g0..g18 as they were.      *)
C1_OutsideThreadsWriteNothing ==
  [][\A t \in Threads :
       (Outside(t) /\ pc'[t] # pc[t]) => (f' = f /\ g' = g /\ pc'[t] = Done)]_vars

C1_Witness ==
  \E t \in Threads : Outside(t) /\ pc[t] = Done /\ Changed /\ ~AllDone

----------------------------------------------------------------------------
(* C2, as stated: every slot written by any thread, with its field's offset *)
(* removed, is the slot of a site inside the box.                          *)
StoresDecodeInto(slots) ==
  \A t \in Threads : \A e \in StoresOf(t) : (e[2] - OffsetOf(e[1])) \in slots

\* C2 as stated: every store decodes to a site of the box
C2_Original == StoresDecodeInto(BoxSlots)

(* C2, amended: threads outside the guard write nothing; an in-place write  *)
(* (f0..f6, g0) hits the writer's own slot, inside the box; the streaming   *)
(* write of g_d by site (i,j,z) hits the slot of (i+cx, j+cy, z+cz), which  *)
(* is a box slot whenever that neighbour is in the box and a slot of the    *)
(* one-site halo layer around the box otherwise.                            *)
StoresHitNeighbour(box, halo) ==
  \A t \in Threads :
    /\ Outside(t) => StoresOf(t) = {}
    /\ \A e \in StoresOf(t) :
         IF InPlace(e[1])
           THEN /\ e[2] - OffsetOf(e[1]) = SlotOf(t[1], t[2], t[3])
                /\ e[2] - OffsetOf(e[1]) \in box
           ELSE /\ e[2] - next = SlotOf(t[1] + Cx(e[1] - NF), t[2] + Cy(e[1] - NF),
                                        t[3] + Cz(e[1] - NF))
                /\ e[2] - next \in halo
                /\ InBox(t[1] + Cx(e[1] - NF), t[2] + Cy(e[1] - NF),
                         t[3] + Cz(e[1] - NF)) => e[2] - next \in box

\* C2 amended: in-place stores hit the own slot, streamed stores the neighbour's
C2_WritesInBoxOrHalo == StoresHitNeighbour(BoxSlots, HaloSlots)

\* an interior site and a corner site have both run
C2_Witness ==
  /\ nx >= 2 /\ ny >= 2 /\ nz >= 2
  /\ pc[<<1, 1, 1>>] = Done
  /\ pc[<<0, 0, 0>>] = Done
  /\ Cardinality(StoresOf(<<1, 1, 1>>)) = NStores

----------------------------------------------------------------------------
(* C3, as stated: with strides above the extents and the offsets at least   *)
(* the padded site count apart, no slot of g1..g18 stored by a site is a    *)
(* slot of the same field loaded by a site in the same launch.              *)
StreamedStores == UNION {{e \in StoresOf(t) : e[1] > FieldG(0)} : t \in Threads}
AllLoads == UNION {LoadsOf(t) : t \in Threads}
NoStoreIsLoaded == StreamedStores \cap AllLoads = {}

\* C3 as stated: no streamed store is loaded, offsets one padded site count apart
C3_Original ==
  (ldx > nx /\ ldy > ny /\ Abs(next - current) >= ldx * ldy * (nz + 1))
    => NoStoreIsLoaded

(* C3, amended: the same with the offsets at least the padded site count    *)
(* plus the largest streaming displacement ldx*ldy + ldx apart.             *)
C3_NoAliasWhenHaloApart ==
  (ldx > nx /\ ldy > ny /\ HaloApart) => NoStoreIsLoaded

C3_Witness ==
  /\ ldx > nx /\ ldy > ny /\ HaloApart /\ AllDone
  /\ Cardinality(Box) > 1
  /\ \A t \in Box : Cardinality(StoresOf(t)) = NStores

----------------------------------------------------------------------------
(* C4, as stated: with distinct offsets whose generations share no site     *)
(* slot, the arrays after the launch are those of the threads run one after *)
(* the other, whatever the interleaving of the threads was.                 *)
Sequential == Replay(par, "asc")

\* C4 as stated: the final arrays are the sequential ones, offsets non-overlapping
C4_Original ==
  (AllDone /\ current # next /\ GenerationsDisjoint) => <<f, g>> = Sequential

(* C4, amended: with strides above the extents and the generations a halo   *)
(* apart, no slot stored by a thread is loaded or stored by another thread, *)
(* and the arrays after the launch are those of the threads run one after   *)
(* the other, whatever the interleaving was.                                *)
NoRace ==
  \A t \in Threads, u \in Threads :
    t # u => StoresOf(t) \cap (LoadsOf(u) \cup StoresOf(u)) = {}

\* C4 amended: no race and the sequential result, generations a halo apart
C4_ScheduleIndependent ==
  (ldx > nx /\ ldy > ny /\ HaloApart)
    => (NoRace /\ (AllDone => <<f, g>> = Sequential))

C4_Witness ==
  /\ ldx > nx /\ ldy > ny /\ HaloApart /\ AllDone
  /\ Cardinality(Box) = 2
  /\ \A t \in Box : g[1][SlotOf(t[1], t[2], t[3]) + next + 1] # G0[1][SlotOf(t[1], t[2], t[3]) + next + 1]

----------------------------------------------------------------------------
(* C5, as stated: with strides at least the extents, different sites have   *)
(* different flattened indices and no slot of any array is stored by two    *)
(* different sites.                                                         *)
IndexInjective ==
  \A t \in Box, u \in Box : t # u => M(t) # M(u)

NoClash(S) ==
  \A t \in DOMAIN S, u \in DOMAIN S : t # u => S[t] \cap S[u] = {}

NoSlotStoredTwice == NoClash([t \in {u \in Box : pc[u] > 0} |-> StoresOf(t)])

\* C5 as stated: injective index and no slot stored twice, strides >= extents
C5_Original ==
  (ldx >= nx /\ ldy >= ny) => (IndexInjective /\ NoSlotStoredTwice)

(* C5, amended: the same for strides strictly above the extents (sites run  *)
(* from 0 to the extent inclusive, so a row holds nx + 1 of them).          *)
C5_InjectiveWhenPadded ==
  (ldx > nx /\ ldy > ny) => (IndexInjective /\ NoSlotStoredTwice)

C5_Witness ==
  /\ ldx > nx /\ ldy > ny /\ AllDone
  /\ Cardinality(Box) >= 8
  /\ \A t \in Box : Cardinality(StoresOf(t)) = NStores

----------------------------------------------------------------------------
(* C6: the displacement of the store to g_d is the flattened lattice vector *)
(* (cx, cy, cz) of direction d as the velocity moments use it; the 18       *)
(* vectors are the distinct vectors of D3Q19 and directions 2k-1 and 2k are *)
(* opposite.                                                                *)
Vec(d) == <<Cx(d), Cy(d), Cz(d)>>

D3Q19 ==
  {v \in {-1, 0, 1} \X {-1, 0, 1} \X {-1, 0, 1} :
     Abs(v[1]) + Abs(v[2]) + Abs(v[3]) \in {1, 2}}

TableIsLattice ==
  /\ \A d \in Moving : Delta(d, ldx, ldy) = Cx(d) + ldx * Cy(d) + ldx * ldy * Cz(d)
  /\ {Vec(d) : d \in Moving} = D3Q19
  /\ \A d \in Moving, e \in Moving : d # e => Vec(d) # Vec(e)
  /\ \A k \in 1 .. 9 : Vec(2 * k) = <<-Cx(2 * k - 1), -Cy(2 * k - 1), -Cz(2 * k - 1)>>

\* with collision off and one population of site (1,1,1) raised by one over a
\* background bg, the next generation holds bg + 1 in that direction at the
\* neighbour along it and bg in every other moving population of every site
ImpulseArrives ==
  (inp.kind = "impulse" /\ AllDone /\ launch = 1) =>
    \A t \in Box, d \in Moving :
      g[d][SlotOf(t[1], t[2], t[3]) + next] =
        I(inp.bg + (IF d = inp.dir /\ t = <<1 + Cx(d), 1 + Cy(d), 1 + Cz(d)>>
                    THEN 1 ELSE 0))

(* C6, as stated: the table is the lattice, and a unit impulse in g_d at an *)
(* interior site, collision off, is found after one launch in g_d at the    *)
(* neighbour along d of the next generation, and nowhere else.              *)
C6_Original == TableIsLattice /\ ImpulseArrives

(* C6, amended: the table is the lattice, and the impulse arrives at the    *)
(* neighbour and nowhere else when the density of every site is nonzero     *)
(* (the impulse sits on a uniform nonzero background).                      *)
C6_ImpulseOnBackground == TableIsLattice /\ (inp.bg > 0 => ImpulseArrives)

C6_Witness ==
  /\ inp.kind = "impulse" /\ inp.bg > 0 /\ AllDone /\ launch = 1
  /\ g[inp.dir][SlotOf(1 + Cx(inp.dir), 1 + Cy(inp.dir), 1 + Cz(inp.dir)) + next]
       = I(inp.bg + 1)
  /\ inp.dir \in {7, 18}

----------------------------------------------------------------------------
(* C7: for a site of nonzero density and the lattice weights normalised     *)
(* (itaurho + eg0 + 6 eg1 + 12 eg2 = 1, 6 eg0 = 18 eg1 + 36 eg2,            *)
(* egc0 + 4 egc1 + 4 egc2 = 0), the 19 values the body stores to g0..g18    *)
(* sum to the density rho it recovered from the 19 values it loaded.        *)
Normalised(P) ==
  /\ RAdd(RAdd(P.itaurho, P.eg0), RAdd(RMul(I(6), P.eg1), RMul(I(12), P.eg2))) = I(1)
  /\ RMul(I(6), P.eg0) = RAdd(RMul(I(18), P.eg1), RMul(I(36), P.eg2))
  /\ RAdd(P.egc0, RAdd(RMul(I(4), P.egc1), RMul(I(4), P.egc2))) = I(0)

\* C7: the stored values of a site sum to its density rho
C7_StoredSumIsRho ==
  \A t \in DOMAIN loc :
    (pc[t] = Done /\ Guard(t) /\ Normalised(par) /\ loc[t].rho # I(0))
      => RSum(loc[t].post, GDirs) = loc[t].rho

----------------------------------------------------------------------------
(* C8: density and phase-field moment of a site.                            *)
SlotT(t) == SlotOf(t[1], t[2], t[3])

\* the generation the caller filled / the one the launch has written
Gen0 == IF launch % 2 = 1 THEN current ELSE next

Density(t) ==
  RAdd(g[0][SlotT(t)], RSum([d \in Moving |-> g[d][SlotT(t) + next]], Moving))
Density0(t) ==
  RAdd(InG(inp, 0, SlotT(t)),
       RSum([d \in Moving |-> InG(inp, d, SlotT(t) + Gen0)], Moving))

FMom(t) ==
  RAdd(f[0][SlotT(t)],
       RSum([k \in 1 .. (NF - 1) |-> f[k][SlotT(t) + Gen0]], 1 .. (NF - 1)))
FMom0(t) ==
  RAdd(InF(inp, 0, SlotT(t)),
       RSum([k \in 1 .. (NF - 1) |-> InF(inp, k, SlotT(t) + Gen0)], 1 .. (NF - 1)))

\* the caller's populations carry no momentum and phi is uniform
In0(t) == [d \in GDirs |-> InG(inp, d, IF d = 0 THEN SlotT(t) ELSE SlotT(t) + Gen0)]
AtRest ==
  /\ inp.lap = I(0) /\ inp.gpx = I(0) /\ inp.gpy = I(0) /\ inp.gpz = I(0)
  /\ \A t \in Box : /\ Moment(In0(t), UxPlus, UxMinus) = I(0)
                    /\ Moment(In0(t), UyPlus, UyMinus) = I(0)
                    /\ Moment(In0(t), UzPlus, UzMinus) = I(0)

(* C8, as stated: from populations without momentum and a uniform phi, the  *)
(* density and the zeroth moment of f0..f6 of every site are after every    *)
(* launch what they were before the first.                                  *)
C8_Original ==
  (AllDone /\ AtRest) =>
    \A t \in Box : Density(t) = Density0(t) /\ FMom(t) = FMom0(t)

(* C8, amended: when moreover the caller's arrays hold the same values at   *)
(* every slot, the weights are normalised (itaurho + eg0 + 6 eg1 + 12 eg2   *)
(* = 1, 6 eg0 = 18 eg1 + 36 eg2) and (1 - itauphi1) * (sum of f0..f6) =     *)
(* itauphi * phi, one launch        leaves the density of every interior    *)
(* site (all its neighbours in the box) and the zeroth moment of f0..f6 of  *)
(* every site what they were.                                               *)
Uniform0 ==
  /\ \A d \in GDirs, a \in Idx : InG(inp, d, a) = InG(inp, d, 0)
  /\ \A k \in FDirs, a \in Idx : InF(inp, k, a) = InF(inp, k, 0)

Balanced(P) ==
  /\ RAdd(RAdd(P.itaurho, P.eg0), RAdd(RMul(I(6), P.eg1), RMul(I(12), P.eg2))) = I(1)
  /\ RMul(I(6), P.eg0) = RAdd(RMul(I(18), P.eg1), RMul(I(36), P.eg2))
  /\ RMul(RSub(I(1), P.itauphi1), FMom0(<<0, 0, 0>>))
       = RMul(P.itauphi, inp.phi)

Interior(t) ==
  \A d \in Moving : InBox(t[1] + Cx(d), t[2] + Cy(d), t[3] + Cz(d))

\* C8 amended: interior density and f moment kept by one launch from uniform rest
C8_RestPreserved ==
  (AllDone /\ launch = 1 /\ AtRest /\ Uniform0 /\ Balanced(par)) =>
    /\ \A t \in Box : Interior(t) => Density(t) = Density0(t)
    /\ \A t \in Box : FMom(t) = FMom0(t)

C8_Witness ==
  /\ AllDone /\ launch = 1 /\ AtRest /\ Uniform0 /\ Balanced(par)
  /\ par.itaurho # I(1)
  /\ Interior(<<1, 1, 1>>)
  /\ g[1][SlotT(<<1, 1, 1>>) + next] # InG(inp, 1, SlotT(<<1, 1, 1>>) + next)

----------------------------------------------------------------------------
(* C9: grav has no effect: whenever a site's thread runs, the arrays change *)
(* exactly as they would had the launch been given any other value of grav, *)
(* so launches that differ in grav alone pass through the same arrays.      *)
GravVals == {I(0), Q(-981, 100)}

RunsAs(P, t, L) == f' = BodyF(P, t, f, L) /\ g' = BodyG(P, t, g, L)
RunsWith(P, t) == RunsAs(P, t, LoadedP(P, t, g))

\* C9: a thread's run is the run under any other grav
C9_GravIsDead ==
  [][\A t \in Threads :
       (Guard(t) /\ pc[t] = 0 /\ pc'[t] = Done) =>
         \A gv \in GravVals : RunsWith([par EXCEPT !.grav = gv], t)]_vars

C9_Witness ==
  /\ AllDone /\ launch = 1 /\ Changed
  /\ par.grav \notin GravVals
  /\ inp.gpz # I(0)

----------------------------------------------------------------------------
(* C10: every store to f0..f6 goes to the storing site's own slot (f0 at m, *)
(* f1..f6 at m + current), none to a neighbour's; every slot of f0..f6 that *)
(* is not a site's own slot, the next-generation slots among them, holds    *)
(* what the caller put there.                                               *)
FStoresInPlace ==
  \A t \in Threads : \A e \in StoresOf(t) :
    e[1] < NF => e[2] = SlotT(t) + (IF e[1] = 0 THEN 0 ELSE current)

FKeptOutside(own) ==
  \A k \in FDirs, a \in Idx :
    (a - (IF k = 0 THEN 0 ELSE current)) \notin own => f[k][a] = InF(inp, k, a)

\* C10: f stores in place, every other f slot kept
C10_PhaseFieldInPlace ==
  /\ FStoresInPlace
  /\ FKeptOutside(BoxSlots)
  /\ GenerationsDisjoint =>
       \A t \in Box, k \in 1 .. (NF - 1) :
         f[k][SlotT(t) + next] = InF(inp, k, SlotT(t) + next)

C10_Witness ==
  /\ AllDone /\ Cardinality(Box) = 2 /\ GenerationsDisjoint
  /\ \A t \in Box, k \in FDirs :
       f[k][SlotT(t) + (IF k = 0 THEN 0 ELSE current)]
         # InF(inp, k, SlotT(t) + (IF k = 0 THEN 0 ELSE current))

====
